---- MODULE Spec2Model ----
(***************************************************************************)
(* A model of the atomix go-client primitives found in this repository:    *)
(*   - the sharded Set (pkg/client/counter/session.go, package set), which *)
(*     routes Add/Remove/Contains by key and fans Size/Clear/Listen/Close/ *)
(*     Delete/New out over all partitions;                                 *)
(*   - the atomic Value (pkg/client/value/value.go): Set, Get, Watch,      *)
(*     Close, Delete;                                                      *)
(*   - the counter's session handler (pkg/client/counter/session.go):      *)
(*     Create, KeepAlive, Close, Delete.                                   *)
(* The util package (GetPartitionIndex, ExecuteAsync, ExecuteOrderedAsync, *)
(* IterAsync), the session package and the per-partition set are not part  *)
(* of the sources at hand; they are modelled from the specification.       *)
(***************************************************************************)
EXTENDS Integers, Sequences, FiniteSets, TLC

\* ------------------------------------------------------------------ bounds
\* The largest partition list handed to set.New / value.New.
MaxPartitions == 3
\* The largest number of events the per-partition streams of a Set emit.
MaxEvents == 2

\* The largest index of the value's state machine (commands applied to it).
MaxIndex == 3

\* The largest number of commands one session of the value sends.
MaxRequests == 3

\* The largest number of Close calls made on the value.
MaxCloses == 3

\* The largest number of goroutines calling Set on the value at the same time.
MaxThreads == 2

\* The largest number of RPCs the counter's session handler sends.
MaxRpcs == 4

\* The values written to the atomic Value; "" is the value never set.
Values == {"A", "B", "C"}
\* The versions a Set may expect; 0 expects none.
ExpectVersions == 0 .. 2
\* The values a Set may expect; "" expects none.
ExpectValues == {"", "A"}
\* The value primitive's name, as bytes ("v").
ValueName == <<118>>

\* Keys / set values: strings as byte sequences ("x", "y", "z").
Keys == { <<120>>, <<121>>, <<122>> }

VARIABLES
    \* ---- sharded Set
    conns,        \* the partitions argument of set.New: the number of connections
    phase,        \* "init" (New not called), "constructing", "ready", "failed"
    setPartitions,\* set.partitions: sequence of per-partition Set handles
    elems,        \* per partition: the elements the partition's state machine holds
    sess,         \* per partition: the session this client holds on it
    listening,    \* per partition: an event stream onto the caller's channel is open
    fanOp,        \* the fan-out in progress or last run
    fanSt,        \* per invocation of that fan-out: running / ok / err, its error, its result
    errCh,        \* the fan-out's error channel (completion order)
    resultCh,     \* the fan-out's result channel (completion order)
    fanRet,       \* what the fan-out call returned to the caller
    ctxDone,      \* the caller's context of the fan-out call has been cancelled
    last,         \* the last key-routed call (Add/Remove/Contains) and its outcome
    fresh,        \* keys whose latest write was a successful Add of this client
    pstream,      \* per partition: events emitted and not yet forwarded
    emitted,      \* per partition: every event the partition emitted, in order
    ch,           \* the caller's Listen channel: every event sent on it, in order
    \* ---- atomic Value
    vnew,         \* the outcome of value.New: called, its error, the partition chosen
    vsess,        \* the value's session: "none", "open", "closed"
    vlog,         \* the value's replicated state machine: its state after each index
    lastRequestId,\* session: the last request id handed out
    lastIndex,    \* session: the highest index seen in a response header
    vlast,        \* the last Set/Get of this client and its outcome
    own,          \* the last successful Set of this session no other write followed
    \* ---- Value.Watch
    wret,         \* the outcome of Watch: called, its error
    wstate,       \* the session's event stream: "none", "open", "closed"
    wnet,         \* responses the server sent on the stream, not yet received
    wstream,      \* the channel DoCommandStream returned: responses not yet taken
    wpc,          \* Watch's forwarding goroutine: "none", "ranging", "done"
    vch,          \* the caller's channel: every event sent on it, in order
    vchClosed,    \* the caller's channel has been closed
    wemitted,     \* every response the server emitted for the stream, in order
    produced,     \* every response the session's stream channel produced, in order
    wlost,        \* a response of the stream was lost in transit
    \* ---- the value's session: Close / Delete
    closeCalls,   \* what each Close of the value returned, in call order
    vdelete,      \* the last Delete of the value and its outcome
    vdestroyed,   \* the server destroyed the value's state
    lastRpc,      \* the last RPC transmitted on the value's session
    \* ---- the consumer of Watch's channel
    consumer,     \* "receiving", "stopped" (no longer receives), "closed" (closed the
                  \* channel before the stream ended), "closedLate" (closed it after)
    wctxDone,     \* the context passed to Watch has been cancelled
    libCloses,    \* how many times Watch's goroutine closed the caller's channel
    \* ---- concurrent commands on the value's session
    reqLock,      \* the session's request-ordering lock: its holder, or 0
    cmds,         \* per calling goroutine: where its Set stands, its request id, its result
    allocated,    \* the request ids handed out, in allocation order
    carried,      \* the request id of every Set request transmitted, in order
    inflight,     \* requests transmitted and not yet executed
    replies,      \* responses sent and not yet taken by their caller
    executed,     \* the last request id of the session the server executed
    \* ---- the counter's session handler
    hHeader,      \* the session's header: session id and index
    hRpcs,        \* every RPC the handler's client sent, in order
    hRet,         \* the last hook called and what it returned
    hUpdates      \* how many times the session's header was updated

setVars == << conns, phase, setPartitions, elems, sess, listening, fanOp, fanSt,
              errCh, resultCh, fanRet, ctxDone, last, fresh, pstream,
              emitted, ch >>

sessionVars == << vnew, vsess, vlog, lastRequestId, lastIndex, vlast, own >>

watchVars == << wret, wstate, wnet, wstream, wpc, vch, vchClosed, wemitted, produced, wlost >>

lifeVars == << closeCalls, vdelete, vdestroyed, lastRpc >>

consumerVars == << consumer, wctxDone, libCloses >>

cmdVars == << reqLock, cmds, allocated, carried, inflight, replies, executed >>

handlerVars == << hHeader, hRpcs, hRet, hUpdates >>

valueVars == << sessionVars, watchVars, lifeVars, consumerVars, cmdVars, handlerVars >>

vars == << setVars, valueVars >>

\* ------------------------------------------------------------------ errors
NoErr == [kind |-> "nil", p |-> -1]
Err(kind, p) == [kind |-> kind, p |-> p]

Parts == 0 .. (conns - 1)

\* --------------------------------------------------- util.GetPartitionIndex
\* A non-cryptographic hash of the key bytes, kept in 16 bits.
RECURSIVE HashBytes(_, _)
HashBytes(key, h) ==
    IF key = <<>> THEN h
    ELSE HashBytes(Tail(key), (h * 31 + Head(key)) % 65536)

Hash(key) == HashBytes(key, 7)

\* util.GetPartitionIndex(key, n): NoPartitions when n = 0, else hash mod n.
GetPartitionIndex(key, n) ==
    IF n = 0 THEN [i |-> 0, err |-> Err("NoPartitions", -1)]
    ELSE [i |-> Hash(key) % n, err |-> NoErr]

\* ------------------------------------------------------------ helper sums
RECURSIVE SumSeq(_)
SumSeq(s) == IF s = <<>> THEN 0 ELSE Head(s) + SumSeq(Tail(s))

RECURSIVE SumLen(_, _)
SumLen(f, S) ==
    IF S = {} THEN 0
    ELSE LET x == CHOOSE y \in S : TRUE IN Len(f[x]) + SumLen(f, S \ {x})

TotalEmitted == SumLen(emitted, DOMAIN emitted)

\* A partition that streams events can emit one more within the model's bound.
EventRoom(p) == (~listening[p]) \/ TotalEmitted < MaxEvents

\* ------------------------------------------------------------------ Init
NoCall == [op |-> "none", key |-> <<>>, idx |-> -1, targets |-> {},
           ok |-> FALSE, err |-> NoErr, wasFresh |-> FALSE]
NoRet == [done |-> FALSE, err |-> NoErr, val |-> 0]

SetInitOf(stored) ==
    /\ conns \in 0 .. MaxPartitions
    /\ phase = "init"
    /\ setPartitions = <<>>
    /\ elems = [p \in Parts |-> {k \in stored : GetPartitionIndex(k, conns).i = p}]
    /\ sess = [p \in Parts |-> "none"]
    /\ listening = [p \in Parts |-> FALSE]
    /\ fanOp = "none"
    /\ fanSt = <<>>
    /\ errCh = <<>>
    /\ resultCh = <<>>
    /\ fanRet = NoRet
    /\ ctxDone = FALSE
    /\ last = NoCall
    /\ fresh = {}
    /\ pstream = [p \in Parts |-> <<>>]
    /\ emitted = [p \in Parts |-> <<>>]
    /\ ch = <<>>

\* ------------------------------------------- the per-partition Set (one session)
\* The event a partition emits for a change of its state, numbered per partition.
Event(p, type, key) ==
    [p |-> p, n |-> Len(emitted[p]) + 1, g |-> TotalEmitted + 1, type |-> type, value |-> key]

\* The partition's state machine changes: stream the event when a listener is open.
Emit(p, type, key, changed) ==
    IF changed /\ listening[p]
    THEN /\ pstream' = [pstream EXCEPT ![p] = Append(@, Event(p, type, key))]
         /\ emitted' = [emitted EXCEPT ![p] = Append(@, Event(p, type, key))]
    ELSE UNCHANGED << pstream, emitted >>

\* The outcome of Add/Remove/Contains on partition p: closed session, transport
\* failure, or the state machine's answer and next state.
PartitionOutcome(op, p, key, fail) ==
    IF sess[p] # "open"
    THEN [err |-> Err("SessionClosed", p), ok |-> FALSE, el |-> elems[p], type |-> "none"]
    ELSE IF fail
    THEN [err |-> Err("Transport", p), ok |-> FALSE, el |-> elems[p], type |-> "none"]
    ELSE IF op = "Add"
    THEN [err |-> NoErr, ok |-> key \notin elems[p], el |-> elems[p] \cup {key}, type |-> "added"]
    ELSE IF op = "Remove"
    THEN [err |-> NoErr, ok |-> key \in elems[p], el |-> elems[p] \ {key}, type |-> "removed"]
    ELSE [err |-> NoErr, ok |-> key \in elems[p], el |-> elems[p], type |-> "none"]

\* ------------------------------------------------------- sharded set: key-routed
\* s.partitions[i] for a Go index i.
PartitionAt(i) == setPartitions[i + 1]

getPartitionFirst(key) ==
    LET r == GetPartitionIndex(key, Len(setPartitions)) IN
    IF r.err # NoErr THEN [err |-> r.err, idx |-> -1, p |-> -1]
    ELSE [err |-> NoErr, idx |-> 0, p |-> PartitionAt(0)]

getPartition(key) ==
    LET r == GetPartitionIndex(key, Len(setPartitions)) IN
    IF r.err # NoErr THEN [err |-> r.err, idx |-> -1, p |-> -1]
    ELSE [err |-> NoErr, idx |-> r.i, p |-> PartitionAt(r.i)]

\* getPartition failed: the call returns (false, err) and touches no partition.
Reject(op, key, err) ==
    /\ last' = [op |-> op, key |-> key, idx |-> -1, targets |-> {}, ok |-> FALSE,
                err |-> err, wasFresh |-> key \in fresh]
    /\ UNCHANGED << elems, fresh, pstream, emitted >>

\* partition.Add / Remove / Contains (ctx, value) on the partition at index idx.
Delegate(op, idx, p, key) ==
    \E fail \in BOOLEAN :
        LET o == PartitionOutcome(op, p, key, fail) IN
        /\ o.el = elems[p] \/ EventRoom(p)
        /\ elems' = [elems EXCEPT ![p] = o.el]
        /\ Emit(p, o.type, key, o.el # elems[p])
        /\ fresh' = IF o.err # NoErr \/ op = "Contains" THEN fresh
                    ELSE IF op = "Add" THEN fresh \cup {key} ELSE fresh \ {key}
        /\ last' = [op |-> op, key |-> key, idx |-> idx, targets |-> {p}, ok |-> o.ok,
                    err |-> o.err, wasFresh |-> key \in fresh]

setAdd(key) ==
    /\ phase = "ready"
    /\ LET r == getPartition(key) IN
       IF r.err # NoErr THEN Reject("Add", key, r.err)
       ELSE Delegate("Add", r.idx, r.p, key)
    /\ UNCHANGED valueVars
    /\ UNCHANGED << conns, phase, setPartitions, sess, listening, fanOp, fanSt,
                    errCh, resultCh, fanRet, ctxDone, ch >>

setRemove(key) ==
    /\ phase = "ready"
    /\ LET r == getPartition(key) IN
       IF r.err # NoErr THEN Reject("Remove", key, r.err)
       ELSE Delegate("Remove", r.idx, r.p, key)
    /\ UNCHANGED valueVars
    /\ UNCHANGED << conns, phase, setPartitions, sess, listening, fanOp, fanSt,
                    errCh, resultCh, fanRet, ctxDone, ch >>

setContainsFirst(key) ==
    /\ phase = "ready"
    /\ LET r == getPartitionFirst(key) IN
       IF r.err # NoErr THEN Reject("Contains", key, r.err)
       ELSE Delegate("Contains", r.idx, r.p, key)
    /\ UNCHANGED valueVars
    /\ UNCHANGED << conns, phase, setPartitions, sess, listening, fanOp, fanSt,
                    errCh, resultCh, fanRet, ctxDone, ch >>

setContains(key) ==
    /\ phase = "ready"
    /\ LET r == getPartition(key) IN
       IF r.err # NoErr THEN Reject("Contains", key, r.err)
       ELSE Delegate("Contains", r.idx, r.p, key)
    /\ UNCHANGED valueVars
    /\ UNCHANGED << conns, phase, setPartitions, sess, listening, fanOp, fanSt,
                    errCh, resultCh, fanRet, ctxDone, ch >>

\* ------------------------------------------------- util: the async fan-outs
\* No goroutine of an earlier fan-out is still running (the model runs the
\* goroutines of one fan-out at a time).
AllDone == \A i \in DOMAIN fanSt : fanSt[i].st # "running"
FanIdle == (fanOp = "none" \/ fanRet.done) /\ AllDone

\* ExecuteAsync / ExecuteOrderedAsync / IterAsync(n, f): one goroutine per
\* index 0..n-1, each running f(i); the caller waits on the error channel.
FanBegin(op, n) ==
    /\ FanIdle
    /\ fanOp' = op
    /\ fanSt' = [i \in 0 .. (n - 1) |-> [st |-> "running", err |-> NoErr, val |-> 0]]
    /\ errCh' = <<>>
    /\ resultCh' = <<>>
    /\ fanRet' = NoRet
    /\ ctxDone' = FALSE

\* Goroutine i ends: f(i) returned (val, err); the outcome goes to a channel.
Complete(i, err, val) ==
    /\ fanSt' = [fanSt EXCEPT ![i] = [st |-> IF err = NoErr THEN "ok" ELSE "err",
                                      err |-> err, val |-> val]]
    /\ IF err # NoErr
       THEN errCh' = Append(errCh, err) /\ UNCHANGED resultCh
       ELSE resultCh' = Append(resultCh, val) /\ UNCHANGED errCh

\* The caller's wait ends: an error was received, or both channels were closed
\* after every goroutine ended.
FanCanReturn(op) ==
    /\ fanOp = op
    /\ ~fanRet.done
    /\ (errCh # <<>> \/ AllDone)

\* The error a fan-out returns: the first one received, or nil.
FanError == IF errCh # <<>> THEN Head(errCh) ELSE NoErr

\* ExecuteOrderedAsync's results, in index order.
OrderedResults == [i \in 1 .. Cardinality(DOMAIN fanSt) |-> fanSt[i - 1].val]

\* The operations whose invocations receive the caller's context.
CtxOps == {"New", "Size", "Clear", "Listen"}

\* The caller cancels the context it passed to the fan-out call.
CancelCtx ==
    /\ fanOp \in CtxOps
    /\ ~ctxDone
    /\ ~AllDone
    /\ ctxDone' = TRUE
    /\ UNCHANGED valueVars
    /\ UNCHANGED << conns, phase, setPartitions, elems, sess, listening, fanOp, fanSt,
                    errCh, resultCh, fanRet, last, fresh, pstream, emitted, ch >>

\* An invocation on partition p under the given context either is refused
\* (context cancelled, session not open, transport failure) or goes through.
Refused(p, cancelled, fail) ==
    IF cancelled THEN Err("Cancelled", p)
    ELSE IF sess[p] # "open" THEN Err("SessionClosed", p)
    ELSE IF fail THEN Err("Transport", p)
    ELSE NoErr

\* Goroutine i of fan-out op is running.
Running(op, i) == fanOp = op /\ i \in DOMAIN fanSt /\ fanSt[i].st = "running"

\* ------------------------------------------------------------ set.New
setNew ==
    /\ phase = "init"
    /\ FanBegin("New", conns)
    /\ phase' = "constructing"
    /\ UNCHANGED valueVars
    /\ UNCHANGED << conns, setPartitions, elems, sess, listening, last, fresh,
                    pstream, emitted, ch >>

\* newPartition(ctx, partitions[i], ...): opens the session on partition i.
setNewInvoke(i) ==
    /\ Running("New", i)
    /\ \E fail \in BOOLEAN :
         LET err == IF ctxDone THEN Err("Cancelled", i)
                    ELSE IF fail THEN Err("Transport", i) ELSE NoErr IN
         /\ Complete(i, err, i)
         /\ sess' = IF err = NoErr THEN [sess EXCEPT ![i] = "open"] ELSE sess
    /\ UNCHANGED valueVars
    /\ UNCHANGED << conns, phase, setPartitions, elems, listening, fanOp, fanRet,
                    ctxDone, last, fresh, pstream, emitted, ch >>

setNewReturn ==
    /\ FanCanReturn("New")
    /\ fanRet' = [done |-> TRUE, err |-> FanError, val |-> 0]
    /\ IF FanError # NoErr
       THEN phase' = "failed" /\ UNCHANGED setPartitions
       ELSE phase' = "ready" /\ setPartitions' = OrderedResults
    /\ UNCHANGED valueVars
    /\ UNCHANGED << conns, elems, sess, listening, fanOp, fanSt, errCh, resultCh,
                    ctxDone, last, fresh, pstream, emitted, ch >>

\* ------------------------------------------------------------ set.Size
setSize ==
    /\ phase = "ready"
    /\ FanBegin("Size", Len(setPartitions))
    /\ UNCHANGED valueVars
    /\ UNCHANGED << conns, phase, setPartitions, elems, sess, listening, last, fresh, pstream, emitted, ch >>

\* s.partitions[i].Size(ctx)
setSizeInvoke(i) ==
    /\ Running("Size", i)
    /\ \E fail \in BOOLEAN :
         LET p == PartitionAt(i)
             err == Refused(p, ctxDone, fail) IN
         Complete(i, err, IF err = NoErr THEN Cardinality(elems[p]) ELSE 0)
    /\ UNCHANGED valueVars
    /\ UNCHANGED << conns, phase, setPartitions, elems, sess, listening, fanOp, fanRet,
                    ctxDone, last, fresh, pstream, emitted, ch >>

\* size := 0; for _, result := range results { size += result.(int) }
SizeOfSkipFirst(results) == IF results = <<>> THEN 0 ELSE SumSeq(Tail(results))

SizeOf(results) == SumSeq(results)

setSizeReturn ==
    /\ FanCanReturn("Size")
    /\ fanRet' = IF FanError # NoErr
                 THEN [done |-> TRUE, err |-> FanError, val |-> 0]
                 ELSE [done |-> TRUE, err |-> NoErr, val |-> SizeOf(resultCh)]
    /\ UNCHANGED valueVars
    /\ UNCHANGED << conns, phase, setPartitions, elems, sess, listening, fanOp, fanSt,
                    errCh, resultCh, ctxDone, last, fresh, pstream, emitted, ch >>

\* ------------------------------------- set.Clear / Listen / Close / Delete
BroadcastOps == {"Clear", "Listen", "Close", "Delete"}

setClearAllButLast ==
    /\ phase = "ready"
    /\ FanBegin("Clear", IF setPartitions = <<>> THEN 0 ELSE Len(setPartitions) - 1)
    /\ UNCHANGED valueVars
    /\ UNCHANGED << conns, phase, setPartitions, elems, sess, listening, last, fresh, pstream, emitted, ch >>

setClear ==
    /\ phase = "ready"
    /\ FanBegin("Clear", Len(setPartitions))
    /\ UNCHANGED valueVars
    /\ UNCHANGED << conns, phase, setPartitions, elems, sess, listening, last, fresh, pstream, emitted, ch >>

\* s.partitions[i].Clear(ctx)
setClearInvoke(i) ==
    /\ Running("Clear", i)
    /\ \E fail \in BOOLEAN :
         LET p == PartitionAt(i)
             err == Refused(p, ctxDone, fail) IN
         /\ Complete(i, err, 0)
         /\ elems' = IF err = NoErr THEN [elems EXCEPT ![p] = {}] ELSE elems
         /\ fresh' = IF err = NoErr THEN fresh \ elems[p] ELSE fresh
    /\ UNCHANGED valueVars
    /\ UNCHANGED << conns, phase, setPartitions, sess, listening, fanOp, fanRet,
                    ctxDone, last, pstream, emitted, ch >>

setListenFirstOnly ==
    /\ phase = "ready"
    /\ \A p \in Parts : ~listening[p]
    /\ FanBegin("Listen", IF setPartitions = <<>> THEN 0 ELSE 1)
    /\ UNCHANGED valueVars
    /\ UNCHANGED << conns, phase, setPartitions, elems, sess, listening, last, fresh, pstream, emitted, ch >>

setListen ==
    /\ phase = "ready"
    /\ \A p \in Parts : ~listening[p]
    /\ FanBegin("Listen", Len(setPartitions))
    /\ UNCHANGED valueVars
    /\ UNCHANGED << conns, phase, setPartitions, elems, sess, listening, last, fresh, pstream, emitted, ch >>

\* s.partitions[i].Listen(ctx, ch): the partition opens its event stream onto ch.
setListenInvoke(i) ==
    /\ Running("Listen", i)
    /\ \E fail \in BOOLEAN :
         LET p == PartitionAt(i)
             err == Refused(p, ctxDone, fail) IN
         /\ Complete(i, err, 0)
         /\ listening' = IF err = NoErr THEN [listening EXCEPT ![p] = TRUE] ELSE listening
    /\ UNCHANGED valueVars
    /\ UNCHANGED << conns, phase, setPartitions, elems, sess, fanOp, fanRet,
                    ctxDone, last, fresh, pstream, emitted, ch >>

setClose ==
    /\ phase = "ready"
    /\ FanBegin("Close", Len(setPartitions))
    /\ UNCHANGED valueVars
    /\ UNCHANGED << conns, phase, setPartitions, elems, sess, listening, last, fresh, pstream, emitted, ch >>

\* s.partitions[i].Close(): the partition closes its session, which is
\* fire-and-forget and idempotent: the session ends (and with it the partition's
\* stream) and the call returns nil, whether or not the close request arrives.
setCloseInvoke(i) ==
    /\ Running("Close", i)
    /\ LET p == PartitionAt(i) IN
         /\ Complete(i, NoErr, 0)
         /\ sess' = IF sess[p] = "open" THEN [sess EXCEPT ![p] = "closed"] ELSE sess
         /\ listening' = [listening EXCEPT ![p] = FALSE]
    /\ UNCHANGED valueVars
    /\ UNCHANGED << conns, phase, setPartitions, elems, fanOp, fanRet,
                    ctxDone, last, fresh, pstream, emitted, ch >>

setDelete ==
    /\ phase = "ready"
    /\ FanBegin("Delete", Len(setPartitions))
    /\ UNCHANGED valueVars
    /\ UNCHANGED << conns, phase, setPartitions, elems, sess, listening, last, fresh, pstream, emitted, ch >>

\* s.partitions[i].Delete(): fails on a closed session; otherwise the session
\* ends and, when the RPC goes through, the partition destroys the set's state.
setDeleteInvoke(i) ==
    /\ Running("Delete", i)
    /\ \E fail \in BOOLEAN :
         LET p == PartitionAt(i)
             err == Refused(p, FALSE, fail) IN
         /\ Complete(i, err, 0)
         /\ sess' = IF sess[p] # "open" THEN sess
                    ELSE [sess EXCEPT ![p] = IF err = NoErr THEN "deleted" ELSE "closed"]
         /\ elems' = IF err = NoErr THEN [elems EXCEPT ![p] = {}] ELSE elems
         /\ fresh' = IF err = NoErr THEN fresh \ elems[p] ELSE fresh
         /\ listening' = [listening EXCEPT ![p] = FALSE]
    /\ UNCHANGED valueVars
    /\ UNCHANGED << conns, phase, setPartitions, fanOp, fanRet,
                    ctxDone, last, pstream, emitted, ch >>

\* return util.IterAsync(...): the broadcast returns the first error, or nil.
IterAsyncReturn ==
    /\ \E op \in BroadcastOps : FanCanReturn(op)
    /\ fanRet' = [done |-> TRUE, err |-> FanError, val |-> 0]
    /\ UNCHANGED valueVars
    /\ UNCHANGED << conns, phase, setPartitions, elems, sess, listening, fanOp, fanSt,
                    errCh, resultCh, ctxDone, last, fresh, pstream, emitted, ch >>

\* The goroutine of partition p's stream sends its next event on the caller's channel.
Forward(p) ==
    /\ pstream[p] # <<>>
    /\ ch' = Append(ch, Head(pstream[p]))
    /\ pstream' = [pstream EXCEPT ![p] = Tail(@)]
    /\ UNCHANGED valueVars
    /\ UNCHANGED << conns, phase, setPartitions, elems, sess, listening, fanOp, fanSt,
                    errCh, resultCh, fanRet, ctxDone, last, fresh, emitted >>

\* Another client of the same set adds or removes a key on the key's partition.
OtherWriter(key, add) ==
    /\ phase = "ready"
    /\ conns >= 1
    /\ LET p == GetPartitionIndex(key, conns).i IN
       /\ EventRoom(p)
       /\ IF add THEN key \notin elems[p] ELSE key \in elems[p]
       /\ elems' = [elems EXCEPT ![p] = IF add THEN @ \cup {key} ELSE @ \ {key}]
       /\ Emit(p, IF add THEN "added" ELSE "removed", key, TRUE)
    /\ fresh' = fresh \ {key}
    /\ UNCHANGED valueVars
    /\ UNCHANGED << conns, phase, setPartitions, sess, listening, fanOp, fanSt,
                    errCh, resultCh, fanRet, ctxDone, last, ch >>

\* ================================================================ Value
NoOp == [op |-> "none", value |-> "", expectVersion |-> 0, expectValue |-> "",
         rpcErr |-> NoErr,
         succeeded |-> FALSE, respVersion |-> 0, retVal |-> "", retVersion |-> 0,
         retErr |-> NoErr, pre |-> [val |-> "", ver |-> 0], post |-> [val |-> "", ver |-> 0],
         floor |-> 0, index |-> 0, cur |-> 0, afterClose |-> FALSE,
         afterStreamEnd |-> FALSE]
NoOwn == [valid |-> FALSE, val |-> "", ver |-> 0, index |-> 0]
NoDelete == [called |-> FALSE, err |-> NoErr, afterClose |-> FALSE, destroyedBefore |-> FALSE]
NoRpc == [kind |-> "none", afterClose |-> FALSE]
Threads == 1 .. MaxThreads
NoCmd == [pc |-> "idle", id |-> 0, value |-> "", version |-> 0, err |-> NoErr]
NoHeader == [sessionId |-> 0, index |-> 0]
NoHook == [hook |-> "none", err |-> NoErr, rpcErr |-> NoErr, before |-> NoHeader,
           after |-> NoHeader, response |-> NoHeader, sentBefore |-> 0, updates |-> 0]

ValueInit ==
    /\ vnew = [called |-> FALSE, err |-> NoErr, part |-> -1]
    /\ vsess = "none"
    /\ vlog = << [val |-> "", ver |-> 0] >>
    /\ lastRequestId = 0
    /\ lastIndex = 0
    /\ vlast = NoOp
    /\ own = NoOwn
    /\ wret = [called |-> FALSE, err |-> NoErr, afterClose |-> FALSE]
    /\ wstate = "none"
    /\ wnet = <<>>
    /\ wstream = <<>>
    /\ wpc = "none"
    /\ vch = <<>>
    /\ vchClosed = FALSE
    /\ wemitted = <<>>
    /\ produced = <<>>
    /\ wlost = FALSE
    /\ closeCalls = <<>>
    /\ vdelete = NoDelete
    /\ vdestroyed = FALSE
    /\ lastRpc = NoRpc
    /\ consumer = "receiving"
    /\ wctxDone = FALSE
    /\ libCloses = 0
    /\ reqLock = 0
    /\ cmds = [t \in Threads |-> NoCmd]
    /\ allocated = <<>>
    /\ carried = <<>>
    /\ inflight = {}
    /\ replies = {}
    /\ executed = 0
    /\ hHeader = NoHeader
    /\ hRpcs = <<>>
    /\ hRet = NoHook
    /\ hUpdates = 0

\* Close has been called on the value.
CloseCalled == closeCalls # <<>>

\* An RPC goes out on the connection of the value's session.
Transmit(kind) == lastRpc' = [kind |-> kind, afterClose |-> CloseCalled]

\* The state machine's current state and index (vlog[1] is the state at index 0).
Current == vlog[Len(vlog)]
CurrentIndex == Len(vlog) - 1
StateAt(index) == vlog[index + 1]

Max(a, b) == IF a >= b THEN a ELSE b

\* ------------------------------------------------------------ value.New
\* New ignores GetPartitionIndex's error and opens the session on partitions[0].
valueNewIgnoreErr ==
    /\ ~vnew.called
    /\ \E fail \in BOOLEAN :
         IF fail
         THEN /\ vnew' = [called |-> TRUE, err |-> Err("Transport", 0), part |-> 0]
              /\ UNCHANGED vsess
         ELSE /\ vnew' = [called |-> TRUE, err |-> NoErr, part |-> 0]
              /\ vsess' = "open"
    /\ Transmit("Create")
    /\ UNCHANGED << setVars, cmdVars, handlerVars, watchVars, consumerVars >>
    /\ UNCHANGED << vlog, lastRequestId, lastIndex, vlast, own >>
    /\ UNCHANGED << closeCalls, vdelete, vdestroyed >>

\* New: i, err := util.GetPartitionIndex(name.Name, len(partitions)); on an error
\* return it, else newValue(ctx, name, partitions[i]), which opens the session.
valueNew ==
    /\ ~vnew.called
    /\ LET r == GetPartitionIndex(ValueName, conns) IN
       IF r.err # NoErr
       THEN /\ vnew' = [called |-> TRUE, err |-> r.err, part |-> -1]
            /\ UNCHANGED << vsess, lastRpc >>
       ELSE \E fail \in BOOLEAN :
            /\ Transmit("Create")
            /\ IF fail
               THEN /\ vnew' = [called |-> TRUE, err |-> Err("Transport", r.i), part |-> r.i]
                    /\ UNCHANGED vsess
               ELSE /\ vnew' = [called |-> TRUE, err |-> NoErr, part |-> r.i]
                    /\ vsess' = "open"
    /\ UNCHANGED << setVars, cmdVars, handlerVars, watchVars, consumerVars >>
    /\ UNCHANGED << vlog, lastRequestId, lastIndex, vlast, own >>
    /\ UNCHANGED << closeCalls, vdelete, vdestroyed >>

\* ------------------------------------------------- the value's state machine
\* Set on the state machine: conditional on the expected version and value.
ServerSet(request) ==
    LET okVersion == request.expectVersion = 0 \/ request.expectVersion = Current.ver
        okValue == request.expectValue = "" \/ request.expectValue = Current.val
        succeeded == okVersion /\ okValue
        next == IF succeeded THEN [val |-> request.value, ver |-> Current.ver + 1]
                ELSE Current
    IN [state |-> next,
        response |-> [header |-> [index |-> Len(vlog)], succeeded |-> succeeded,
                      version |-> next.ver]]

\* The state machine changed from prev to next: the server sends the change on
\* the event stream, numbered by response id, while the stream is open.
EmitUpdate(changed, prev, next) ==
    IF changed /\ wstate = "open"
    THEN LET r == [rid |-> Len(wemitted) + 1, previousValue |-> prev.val,
                   newValue |-> next.val, newVersion |-> next.ver] IN
         /\ wnet' = Append(wnet, r)
         /\ wemitted' = Append(wemitted, r)
    ELSE UNCHANGED << wnet, wemitted >>

\* ------------------------------------------------------------ value.Set
VersionMismatch == [kind |-> "version mismatch", p |-> -1]
ValueMismatch == [kind |-> "value mismatch", p |-> -1]

\* opts[i].beforeSet(request): the options fill the expectations of the request.
BeforeSet(request, opts) ==
    [request EXCEPT !.expectVersion = opts.expectVersion, !.expectValue = opts.expectValue]

\* A Set called without options.
NoOptions == [expectVersion |-> 0, expectValue |-> ""]

\* The request is built without the header the session handed to the callback.
SetRequestNoHeader(header, value, opts) ==
    BeforeSet([header |-> [requestId |-> 0, index |-> 0], value |-> value,
               expectVersion |-> 0, expectValue |-> ""], opts)

\* The request the DoCommand callback builds (header, value, then the options).
SetRequest(header, value, opts) ==
    BeforeSet([header |-> header, value |-> value, expectVersion |-> 0, expectValue |-> ""],
              opts)

\* What the callback hands back to DoCommand: the response's header.
SetCallbackHeader(response) == response.header

\* Set's result from DoCommand's outcome: lines 128-140.
SetReturnIgnoreSucceeded(expect, rpcErr, response) ==
    IF rpcErr # NoErr THEN [version |-> 0, err |-> rpcErr]
    ELSE [version |-> response.version, err |-> NoErr]

SetReturn(expect, rpcErr, response) ==
    IF rpcErr # NoErr THEN [version |-> 0, err |-> rpcErr]
    ELSE IF ~response.succeeded
    THEN IF expect.expectVersion > 0 THEN [version |-> 0, err |-> VersionMismatch]
         ELSE [version |-> 0, err |-> ValueMismatch]
    ELSE [version |-> response.version, err |-> NoErr]

NoResponse == [header |-> [index |-> 0], succeeded |-> FALSE, version |-> 0]

\* v.Set(ctx, value, opts...): the command goes through the session (DoCommand),
\* which refuses it when closed, numbers it, and takes the index of the response.
\* The RPC fails before the state machine applied it ("lost"), after ("late"), or not.
valueSet(value, opts) ==
    /\ vnew.called /\ vnew.err = NoErr
    /\ LET expect == BeforeSet([header |-> [index |-> 0], value |-> "", expectVersion |-> 0,
                                expectValue |-> ""], opts) IN
       IF vsess # "open"
       THEN /\ vlast' = [NoOp EXCEPT !.op = "Set", !.value = value,
                           !.expectVersion = expect.expectVersion,
                           !.expectValue = expect.expectValue,
                           !.rpcErr = Err("SessionClosed", -1),
                           !.retErr = SetReturn(expect, Err("SessionClosed", -1), NoResponse).err,
                           !.pre = Current, !.post = Current,
                           !.afterClose = CloseCalled,
                           !.afterStreamEnd = (wstate = "closed")]
            /\ UNCHANGED << vlog, lastRequestId, lastIndex, own, wnet, wemitted, lastRpc >>
       ELSE \E rpc \in {"ok", "lost", "late"} :
            LET header == [requestId |-> lastRequestId + 1, index |-> lastIndex]
                out == ServerSet(SetRequest(header, value, opts))
                rpcErr == IF rpc = "ok" THEN NoErr ELSE Err("Transport", -1)
                response == IF rpc = "ok" THEN out.response ELSE NoResponse
                ret == SetReturn(expect, rpcErr, response)
            IN
            /\ lastRequestId < MaxRequests
            /\ rpc = "lost" \/ Len(vlog) <= MaxIndex
            /\ lastRequestId' = lastRequestId + 1
            /\ Transmit("Set")
            /\ vlog' = IF rpc = "lost" THEN vlog ELSE Append(vlog, out.state)
            /\ EmitUpdate(rpc # "lost" /\ out.response.succeeded, Current, out.state)
            /\ lastIndex' = IF rpc = "ok"
                            THEN Max(lastIndex, SetCallbackHeader(response).index)
                            ELSE lastIndex
            /\ own' = IF ret.err = NoErr
                      THEN [valid |-> TRUE, val |-> value, ver |-> ret.version,
                            index |-> Len(vlog)]
                      ELSE IF rpc = "late" /\ out.state # Current
                      THEN [own EXCEPT !.valid = FALSE] ELSE own
            /\ vlast' = [NoOp EXCEPT !.op = "Set", !.value = value,
                           !.expectVersion = expect.expectVersion,
                           !.expectValue = expect.expectValue,
                           !.rpcErr = rpcErr, !.succeeded = response.succeeded,
                           !.respVersion = response.version,
                           !.retVersion = ret.version, !.retErr = ret.err,
                           !.pre = Current,
                           !.post = IF rpc = "lost" THEN Current ELSE out.state,
                           !.afterClose = CloseCalled,
                           !.afterStreamEnd = (wstate = "closed")]
    /\ UNCHANGED << setVars, cmdVars, handlerVars, consumerVars >>
    /\ UNCHANGED << vnew, vsess, wret, wstate, wstream, wpc, vch, vchClosed, produced, wlost >>
    /\ UNCHANGED << closeCalls, vdelete, vdestroyed >>

\* ------------------------------------------------------------ value.Get
\* The request of the DoQuery callback carries the session's header.
GetRequestNoHeader(header) == [header |-> [index |-> 0]]

GetRequest(header) == [header |-> header]

\* v.Get(ctx): the query carries last_index as its read floor; a replica serves
\* it from any state at or after the floor.
valueGet ==
    /\ vnew.called /\ vnew.err = NoErr
    /\ IF vsess # "open"
       THEN /\ vlast' = [NoOp EXCEPT !.op = "Get", !.rpcErr = Err("SessionClosed", -1),
                           !.retErr = Err("SessionClosed", -1), !.pre = Current,
                           !.post = Current, !.afterClose = CloseCalled,
                           !.afterStreamEnd = (wstate = "closed")]
            /\ UNCHANGED << lastIndex, lastRpc >>
       ELSE \E fail \in BOOLEAN :
            LET request == GetRequest([requestId |-> lastRequestId, index |-> lastIndex]) IN
            \E index \in request.header.index .. CurrentIndex :
               /\ Transmit("Get")
               /\ lastIndex' = IF fail THEN lastIndex ELSE Max(lastIndex, index)
               /\ vlast' = IF fail
                           THEN [NoOp EXCEPT !.op = "Get", !.rpcErr = Err("Transport", -1),
                                   !.retErr = Err("Transport", -1), !.pre = Current,
                                   !.post = Current, !.afterClose = CloseCalled,
                           !.afterStreamEnd = (wstate = "closed")]
                           ELSE [NoOp EXCEPT !.op = "Get", !.retVal = StateAt(index).val,
                                   !.retVersion = StateAt(index).ver, !.pre = Current,
                                   !.post = Current, !.floor = lastIndex, !.index = index,
                                   !.cur = CurrentIndex, !.afterClose = CloseCalled,
                           !.afterStreamEnd = (wstate = "closed")]
    /\ UNCHANGED << setVars, cmdVars, handlerVars, watchVars, consumerVars >>
    /\ UNCHANGED << vnew, vsess, vlog, lastRequestId, own >>
    /\ UNCHANGED << closeCalls, vdelete, vdestroyed >>

\* Another session writes the value.
OtherSet(value) ==
    /\ vsess = "open"
    /\ Len(vlog) <= MaxIndex
    /\ vlog' = Append(vlog, [val |-> value, ver |-> Current.ver + 1])
    /\ EmitUpdate(TRUE, Current, [val |-> value, ver |-> Current.ver + 1])
    /\ own' = [own EXCEPT !.valid = FALSE]
    /\ UNCHANGED << setVars, cmdVars, handlerVars >>
    /\ UNCHANGED << vnew, vsess, lastRequestId, lastIndex, vlast >>
    /\ UNCHANGED << wret, wstate, wstream, wpc, vch, vchClosed, produced, wlost >>
    /\ UNCHANGED << lifeVars, consumerVars >>

\* ------------------------------------------------------------ value.Watch
\* v.Watch(ctx, ch): DoCommandStream opens the event stream; on an error Watch
\* returns it; otherwise the forwarding goroutine starts and Watch returns nil.
valueWatchNoErrCheck ==
    /\ vnew.called /\ vnew.err = NoErr
    /\ wpc = "none"
    /\ \E fail \in BOOLEAN :
         LET err == IF vsess # "open" THEN Err("SessionClosed", -1)
                    ELSE IF fail THEN Err("Transport", -1) ELSE NoErr IN
         /\ wret' = [called |-> TRUE, err |-> err, afterClose |-> CloseCalled]
         /\ IF vsess = "open" THEN Transmit("Events") ELSE UNCHANGED lastRpc
         /\ wstate' = IF err = NoErr THEN "open" ELSE "closed"
         /\ wpc' = "ranging"
    /\ UNCHANGED << setVars, cmdVars, handlerVars, sessionVars, consumerVars >>
    /\ UNCHANGED << wnet, wstream, vch, vchClosed, wemitted, produced, wlost >>
    /\ UNCHANGED << closeCalls, vdelete, vdestroyed >>

valueWatch ==
    /\ vnew.called /\ vnew.err = NoErr
    /\ wpc = "none"
    /\ \E fail \in BOOLEAN :
         LET err == IF vsess # "open" THEN Err("SessionClosed", -1)
                    ELSE IF fail THEN Err("Transport", -1) ELSE NoErr IN
         /\ wret' = [called |-> TRUE, err |-> err, afterClose |-> CloseCalled]
         /\ IF vsess = "open" THEN Transmit("Events") ELSE UNCHANGED lastRpc
         /\ wstate' = IF err = NoErr THEN "open" ELSE wstate
         /\ wpc' = IF err = NoErr THEN "ranging" ELSE wpc
    /\ UNCHANGED << setVars, cmdVars, handlerVars, sessionVars, consumerVars >>
    /\ UNCHANGED << wnet, wstream, vch, vchClosed, wemitted, produced, wlost >>
    /\ UNCHANGED << closeCalls, vdelete, vdestroyed >>

\* The session's receive loop takes the next response off the wire: in
\* response_id order it goes onto the stream channel; a gap closes the stream.
StreamRecv ==
    /\ wstate = "open"
    /\ wnet # <<>>
    /\ IF Head(wnet).rid = Len(produced) + 1
       THEN /\ wstream' = Append(wstream, Head(wnet))
            /\ produced' = Append(produced, Head(wnet))
            /\ wnet' = Tail(wnet)
            /\ UNCHANGED wstate
       ELSE /\ wstate' = "closed"
            /\ wnet' = <<>>
            /\ UNCHANGED << wstream, produced >>
    /\ UNCHANGED << setVars, cmdVars, handlerVars, sessionVars >>
    /\ UNCHANGED << wret, wpc, vch, vchClosed, wemitted, wlost >>
    /\ UNCHANGED << lifeVars, consumerVars >>

\* The stream's Recv fails: the session closes the stream channel.
StreamError ==
    /\ wstate = "open"
    /\ wstate' = "closed"
    /\ wnet' = <<>>
    /\ UNCHANGED << setVars, cmdVars, handlerVars, sessionVars >>
    /\ UNCHANGED << wret, wstream, wpc, vch, vchClosed, wemitted, produced, wlost >>
    /\ UNCHANGED << lifeVars, consumerVars >>

\* A response is lost on its way to the client (a gap in response_id).
InjectGap ==
    /\ wstate = "open"
    /\ wnet # <<>>
    /\ ~wlost
    /\ wnet' = Tail(wnet)
    /\ wlost' = TRUE
    /\ UNCHANGED << setVars, cmdVars, handlerVars, sessionVars >>
    /\ UNCHANGED << wret, wstate, wstream, wpc, vch, vchClosed, wemitted, produced >>
    /\ UNCHANGED << lifeVars, consumerVars >>

\* &Event{Type: EventUpdated, Value: response.NewValue, Version: response.NewVersion}
WatchEventPrevious(response) ==
    [type |-> "updated", value |-> response.previousValue, version |-> response.newVersion]

WatchEvent(response) ==
    [type |-> "updated", value |-> response.newValue, version |-> response.newVersion]

\* The goroutine's outcomes other than running on: it returned, or it panicked.
Panics == {"closeOfClosed", "sendOnClosed"}

\* for event := range stream { ch <- &Event{...} }: the send waits for the
\* consumer to receive; a send on a closed channel panics.
WatchForward ==
    /\ wpc = "ranging"
    /\ wstream # <<>>
    /\ vchClosed \/ consumer = "receiving"
    /\ wstream' = Tail(wstream)
    /\ IF vchClosed
       THEN wpc' = "sendOnClosed" /\ UNCHANGED vch
       ELSE vch' = Append(vch, WatchEvent(Head(wstream))) /\ UNCHANGED wpc
    /\ UNCHANGED << setVars, cmdVars, handlerVars, sessionVars, lifeVars, consumerVars >>
    /\ UNCHANGED << wret, wstate, wnet, vchClosed, wemitted, produced, wlost >>

\* The range ends and the goroutine returns without closing the channel.
WatchDoneNoClose ==
    /\ wpc = "ranging"
    /\ wstream = <<>>
    /\ wstate = "closed"
    /\ wpc' = "done"
    /\ UNCHANGED << setVars, cmdVars, handlerVars, sessionVars, lifeVars, consumerVars >>
    /\ UNCHANGED << wret, wstate, wnet, wstream, vch, vchClosed, wemitted, produced, wlost >>

\* The stream channel is closed and drained: the range ends, defer close(ch)
\* runs; the close of a channel that is already closed panics.
WatchDone ==
    /\ wpc = "ranging"
    /\ wstream = <<>>
    /\ wstate = "closed"
    /\ IF vchClosed
       THEN wpc' = "closeOfClosed" /\ UNCHANGED << vchClosed, libCloses >>
       ELSE wpc' = "done" /\ vchClosed' = TRUE /\ libCloses' = libCloses + 1
    /\ UNCHANGED << setVars, cmdVars, handlerVars, sessionVars, lifeVars >>
    /\ UNCHANGED << consumer, wctxDone >>
    /\ UNCHANGED << wret, wstate, wnet, wstream, vch, wemitted, produced, wlost >>

\* ------------------------------------------------ the consumer of the channel
\* The consumer closes the channel it passed to Watch.
ConsumerClose ==
    /\ vnew.called /\ vnew.err = NoErr
    /\ ~vchClosed
    /\ consumer' = IF wstate = "closed" THEN "closedLate" ELSE "closed"
    /\ vchClosed' = TRUE
    /\ UNCHANGED << setVars, cmdVars, handlerVars, sessionVars, lifeVars >>
    /\ UNCHANGED << wctxDone, libCloses >>
    /\ UNCHANGED << wret, wstate, wnet, wstream, wpc, vch, wemitted, produced, wlost >>

\* The consumer stops receiving from the channel.
ConsumerStop ==
    /\ wret.called /\ wret.err = NoErr
    /\ consumer = "receiving"
    /\ consumer' = "stopped"
    /\ UNCHANGED << setVars, cmdVars, handlerVars, sessionVars, lifeVars, watchVars >>
    /\ UNCHANGED << wctxDone, libCloses >>

\* The caller cancels the context it passed to Watch: the session closes the
\* stream, whose channel keeps the responses already produced.
CancelWatch ==
    /\ wret.called /\ wret.err = NoErr
    /\ ~wctxDone
    /\ wctxDone' = TRUE
    /\ wstate' = IF wstate = "open" THEN "closed" ELSE wstate
    /\ wnet' = <<>>
    /\ UNCHANGED << setVars, cmdVars, handlerVars, sessionVars, lifeVars >>
    /\ UNCHANGED << consumer, libCloses >>
    /\ UNCHANGED << wret, wstream, wpc, vch, vchClosed, wemitted, produced, wlost >>

\* ------------------------------------------------- value.Close / value.Delete
SessionClosed == Err("SessionClosed", -1)

\* session.Close(): on an open session a fire-and-forget CloseSession, the
\* session becomes Closed and its streams end; on a closed session nothing.
\* Either way the caller gets nil.
SessionClose ==
    /\ IF vsess = "open" THEN Transmit("Close") ELSE UNCHANGED lastRpc
    /\ vsess' = "closed"
    /\ wstate' = IF wstate = "open" THEN "closed" ELSE wstate
    /\ wnet' = <<>>

\* session.Delete(): on a closed session SessionClosed and nothing is sent; on
\* an open one CloseSession with the delete flag, the session becomes Closed,
\* and the server destroys the value's state when the request reaches it.
SessionDelete(fail) ==
    /\ IF vsess = "open" THEN Transmit("Delete") ELSE UNCHANGED lastRpc
    /\ vsess' = "closed"
    /\ wstate' = IF wstate = "open" THEN "closed" ELSE wstate
    /\ wnet' = <<>>
    /\ vdestroyed' = (vdestroyed \/ (vsess = "open" /\ ~fail))

\* What session.Delete() returns.
SessionDeleteError(fail) ==
    IF vsess # "open" THEN SessionClosed
    ELSE IF fail THEN Err("Transport", -1) ELSE NoErr

\* Close() does nothing and returns nil.
valueCloseNoop ==
    /\ vnew.called /\ vnew.err = NoErr
    /\ Len(closeCalls) < MaxCloses
    /\ closeCalls' = Append(closeCalls, NoErr)
    /\ UNCHANGED << setVars, cmdVars, handlerVars, sessionVars, watchVars, consumerVars >>
    /\ UNCHANGED << vdelete, vdestroyed, lastRpc >>

\* func (v *value) Close() error { return v.session.Close() }
valueClose ==
    /\ vnew.called /\ vnew.err = NoErr
    /\ Len(closeCalls) < MaxCloses
    /\ SessionClose
    /\ closeCalls' = Append(closeCalls, NoErr)
    /\ UNCHANGED << setVars, cmdVars, handlerVars, consumerVars >>
    /\ UNCHANGED << vnew, vlog, lastRequestId, lastIndex, vlast, own >>
    /\ UNCHANGED << wret, wstream, wpc, vch, vchClosed, wemitted, produced, wlost >>
    /\ UNCHANGED << vdelete, vdestroyed >>

\* Delete() runs the session's Close instead of its Delete.
valueDeleteCallsClose ==
    /\ vnew.called /\ vnew.err = NoErr
    /\ SessionClose
    /\ vdelete' = [called |-> TRUE, err |-> NoErr, afterClose |-> CloseCalled,
                   destroyedBefore |-> vdestroyed]
    /\ UNCHANGED << setVars, cmdVars, handlerVars, consumerVars >>
    /\ UNCHANGED << vnew, vlog, lastRequestId, lastIndex, vlast, own >>
    /\ UNCHANGED << wret, wstream, wpc, vch, vchClosed, wemitted, produced, wlost >>
    /\ UNCHANGED << closeCalls, vdestroyed >>

\* func (v *value) Delete() error { return v.session.Delete() }
valueDelete ==
    /\ vnew.called /\ vnew.err = NoErr
    /\ \E fail \in BOOLEAN :
         /\ SessionDelete(fail)
         /\ vdelete' = [called |-> TRUE, err |-> SessionDeleteError(fail),
                        afterClose |-> CloseCalled, destroyedBefore |-> vdestroyed]
    /\ UNCHANGED << setVars, cmdVars, handlerVars, consumerVars >>
    /\ UNCHANGED << vnew, vlog, lastRequestId, lastIndex, vlast, own >>
    /\ UNCHANGED << wret, wstream, wpc, vch, vchClosed, wemitted, produced, wlost >>
    /\ UNCHANGED closeCalls

\* The session's keep-alive timer fires: it runs while the session is Open.
SessionKeepAlive ==
    /\ vsess = "open"
    /\ Transmit("KeepAlive")
    /\ UNCHANGED << setVars, cmdVars, handlerVars, sessionVars, watchVars, consumerVars >>
    /\ UNCHANGED << closeCalls, vdelete, vdestroyed >>

\* ------------------------------------- concurrent Sets on the value's session
\* A goroutine calls v.Set(ctx, value); DoCommand takes the session's
\* request-ordering lock.
cmdLock(t, value) ==
    /\ vnew.called /\ vnew.err = NoErr
    /\ vsess = "open"
    /\ cmds[t].pc = "idle"
    /\ reqLock = 0
    /\ lastRequestId < MaxRequests
    /\ reqLock' = t
    /\ cmds' = [cmds EXCEPT ![t] = [NoCmd EXCEPT !.pc = "locked", !.value = value]]
    /\ UNCHANGED << setVars, sessionVars, watchVars, lifeVars, consumerVars, handlerVars >>
    /\ UNCHANGED << allocated, carried, inflight, replies, executed >>

\* Under the lock: the next request id is last_request_id + 1.
cmdReadId(t) ==
    /\ cmds[t].pc = "locked"
    /\ cmds' = [cmds EXCEPT ![t].pc = "read", ![t].id = lastRequestId + 1]
    /\ UNCHANGED << setVars, sessionVars, watchVars, lifeVars, consumerVars, handlerVars >>
    /\ UNCHANGED << reqLock, allocated, carried, inflight, replies, executed >>

\* Under the lock: last_request_id becomes the id handed out; the lock is released.
cmdWriteId(t) ==
    /\ cmds[t].pc = "read"
    /\ lastRequestId' = cmds[t].id
    /\ allocated' = Append(allocated, cmds[t].id)
    /\ reqLock' = 0
    /\ cmds' = [cmds EXCEPT ![t].pc = "allocated"]
    /\ UNCHANGED << setVars, watchVars, lifeVars, consumerVars, handlerVars >>
    /\ UNCHANGED << vnew, vsess, vlog, lastIndex, vlast, own >>
    /\ UNCHANGED << carried, inflight, replies, executed >>

\* The DoCommand callback of Set: it builds the request around the header it
\* was handed and client.Set transmits it.
setCallback(t) ==
    /\ cmds[t].pc = "allocated"
    /\ LET request == SetRequest([requestId |-> cmds[t].id, index |-> lastIndex],
                                 cmds[t].value, NoOptions) IN
       /\ carried' = Append(carried, request.header.requestId)
       /\ inflight' = inflight \cup {[t |-> t, request |-> request]}
    /\ Transmit("Set")
    /\ cmds' = [cmds EXCEPT ![t].pc = "sent"]
    /\ UNCHANGED << setVars, sessionVars, watchVars, consumerVars, handlerVars >>
    /\ UNCHANGED << closeCalls, vdelete, vdestroyed >>
    /\ UNCHANGED << reqLock, allocated, replies, executed >>

\* The server executes the commands of the session in request id order.
serverExecute ==
    /\ \E m \in inflight :
         /\ m.request.header.requestId = executed + 1
         /\ Len(vlog) <= MaxIndex
         /\ LET out == ServerSet(m.request) IN
            /\ vlog' = Append(vlog, out.state)
            /\ EmitUpdate(out.response.succeeded, Current, out.state)
            /\ replies' = replies \cup {[t |-> m.t, response |-> out.response]}
         /\ inflight' = inflight \ {m}
    /\ executed' = executed + 1
    /\ own' = [own EXCEPT !.valid = FALSE]
    /\ UNCHANGED << setVars, lifeVars, consumerVars, handlerVars >>
    /\ UNCHANGED << vnew, vsess, lastRequestId, lastIndex, vlast >>
    /\ UNCHANGED << wret, wstate, wstream, wpc, vch, vchClosed, produced, wlost >>
    /\ UNCHANGED << reqLock, cmds, allocated, carried >>

\* client.Set returns the response: the callback hands its header to the
\* session, which takes the index; Set returns the version or the mismatch.
setResponse(t) ==
    /\ cmds[t].pc = "sent"
    /\ \E m \in replies :
         /\ m.t = t
         /\ LET ret == SetReturn(NoOptions, NoErr, m.response) IN
            cmds' = [cmds EXCEPT ![t].pc = "idle", ![t].version = ret.version,
                                 ![t].err = ret.err]
         /\ lastIndex' = Max(lastIndex, SetCallbackHeader(m.response).index)
         /\ replies' = replies \ {m}
    /\ UNCHANGED << setVars, watchVars, lifeVars, consumerVars, handlerVars >>
    /\ UNCHANGED << vnew, vsess, vlog, lastRequestId, vlast, own >>
    /\ UNCHANGED << reqLock, allocated, carried, inflight, executed >>

\* ------------------------------------------- the counter's SessionHandler
\* The headers a CreateResponse may carry: the session id the server assigned
\* and its index.
CreateResponses == [sessionId : 1 .. 2, index : 1 .. 2]

\* s.GetHeader(): the session's current header.
GetHeader == hHeader

\* s.UpdateHeader(header): the session takes the session id of the response
\* and its index, which never decreases.
UpdateHeader(header, response) ==
    [sessionId |-> response.sessionId, index |-> Max(header.index, response.index)]

\* &pb.CreateRequest{Header: s.GetHeader()}
CreateRequest(header) == [rpc |-> "Create", header |-> header, delete |-> FALSE]

\* &pb.CloseRequest{Header: s.GetHeader()} and, for Delete, Delete: true
CloseRequest(header, delete) == [rpc |-> "Close", header |-> header, delete |-> delete]

\* The session has been created / has run its close or delete hook.
HandlerCreated == hHeader.sessionId # 0
HandlerClosed == \E i \in 1 .. Len(hRpcs) : hRpcs[i].rpc = "Close"

\* Create returns nil although the RPC failed.
handlerCreateSwallowsError ==
    /\ ~HandlerCreated
    /\ Len(hRpcs) < MaxRpcs
    /\ \E fail \in BOOLEAN, response \in CreateResponses :
         /\ hRpcs' = Append(hRpcs, CreateRequest(GetHeader))
         /\ IF fail
            THEN /\ hRet' = [NoHook EXCEPT !.hook = "Create", !.rpcErr = Err("Transport", -1),
                                !.before = hHeader, !.after = hHeader,
                                !.sentBefore = Len(hRpcs)]
                 /\ UNCHANGED << hHeader, hUpdates >>
            ELSE /\ hHeader' = UpdateHeader(hHeader, response)
                 /\ hUpdates' = hUpdates + 1
                 /\ hRet' = [NoHook EXCEPT !.hook = "Create", !.before = hHeader,
                                !.after = UpdateHeader(hHeader, response),
                                !.response = response, !.sentBefore = Len(hRpcs),
                                !.updates = 1]
    /\ UNCHANGED << setVars, sessionVars, watchVars, lifeVars, consumerVars, cmdVars >>

\* Create: request with the session's header; m.client.Create; on an error
\* return it; otherwise s.UpdateHeader(response.Header) and nil.
handlerCreate ==
    /\ ~HandlerCreated
    /\ Len(hRpcs) < MaxRpcs
    /\ \E fail \in BOOLEAN, response \in CreateResponses :
         /\ hRpcs' = Append(hRpcs, CreateRequest(GetHeader))
         /\ IF fail
            THEN /\ hRet' = [NoHook EXCEPT !.hook = "Create", !.err = Err("Transport", -1),
                                !.rpcErr = Err("Transport", -1),
                                !.before = hHeader, !.after = hHeader,
                                !.sentBefore = Len(hRpcs)]
                 /\ UNCHANGED << hHeader, hUpdates >>
            ELSE /\ hHeader' = UpdateHeader(hHeader, response)
                 /\ hUpdates' = hUpdates + 1
                 /\ hRet' = [NoHook EXCEPT !.hook = "Create", !.before = hHeader,
                                !.after = UpdateHeader(hHeader, response),
                                !.response = response, !.sentBefore = Len(hRpcs),
                                !.updates = 1]
    /\ UNCHANGED << setVars, sessionVars, watchVars, lifeVars, consumerVars, cmdVars >>

\* KeepAlive: return nil.
handlerKeepAlive ==
    /\ HandlerCreated
    /\ ~HandlerClosed
    /\ hRet' = [NoHook EXCEPT !.hook = "KeepAlive", !.before = hHeader, !.after = hHeader,
                   !.sentBefore = Len(hRpcs)]
    /\ UNCHANGED << hHeader, hRpcs, hUpdates >>
    /\ UNCHANGED << setVars, sessionVars, watchVars, lifeVars, consumerVars, cmdVars >>

\* The body shared by Close and Delete: the close request with the session's
\* header and the given delete flag; m.client.Close; return its error.
HandlerCloseWith(hook, delete) ==
    /\ HandlerCreated
    /\ ~HandlerClosed
    /\ Len(hRpcs) < MaxRpcs
    /\ \E fail \in BOOLEAN :
         LET err == IF fail THEN Err("Transport", -1) ELSE NoErr IN
         /\ hRpcs' = Append(hRpcs, CloseRequest(GetHeader, delete))
         /\ hRet' = [NoHook EXCEPT !.hook = hook, !.err = err, !.rpcErr = err,
                        !.before = hHeader, !.after = hHeader,
                        !.sentBefore = Len(hRpcs)]
    /\ UNCHANGED << hHeader, hUpdates >>
    /\ UNCHANGED << setVars, sessionVars, watchVars, lifeVars, consumerVars, cmdVars >>

\* Close sends its request with the delete flag set.
handlerCloseDeletes == HandlerCloseWith("Close", TRUE)

\* Close: &pb.CloseRequest{Header: s.GetHeader()}
handlerClose == HandlerCloseWith("Close", FALSE)

\* Delete: &pb.CloseRequest{Header: s.GetHeader(), Delete: true}
handlerDelete == HandlerCloseWith("Delete", TRUE)

\* The session takes the header of a command's response: its index moves on.
sessionUpdateHeader(index) ==
    /\ HandlerCreated
    /\ ~HandlerClosed
    /\ index > hHeader.index
    /\ hHeader' = UpdateHeader(hHeader, [sessionId |-> hHeader.sessionId, index |-> index])
    /\ hUpdates' = hUpdates + 1
    /\ UNCHANGED << hRpcs, hRet >>
    /\ UNCHANGED << setVars, sessionVars, watchVars, lifeVars, consumerVars, cmdVars >>

\* ------------------------------------------------------------------ Spec
\* The set workloads start on a set that other clients may have filled earlier;
\* the value workloads open the value over a single partition.
Init == (\E stored \in SUBSET Keys : SetInitOf(stored)) /\ ValueInit

InitValue == SetInitOf({}) /\ conns = 1 /\ ValueInit

\* The constructor, run by every workload.
Construct ==
    \/ setNew
    \/ \E i \in Parts : setNewInvoke(i)
    \/ setNewReturn

\* Workload 1: the key-routed calls of this client and value.New over partition
\* lists of any length, the empty one included, with another client's writes.
RoutingNext ==
    \/ Construct
    \/ \E k \in Keys : setAdd(k)
    \/ \E k \in Keys : setRemove(k)
    \/ \E k \in Keys : setContains(k)
    \/ \E k \in Keys, add \in BOOLEAN : OtherWriter(k, add)
    \/ valueNew

SpecRouting == Init /\ [][RoutingNext]_vars

\* Workload 2: Size under concurrent writes, cancellation and session close.
SizeNext ==
    \/ Construct
    \/ \E k \in Keys, add \in BOOLEAN : OtherWriter(k, add)
    \/ setSize
    \/ \E i \in Parts : setSizeInvoke(i)
    \/ setSizeReturn
    \/ CancelCtx

SpecSize == Init /\ [][SizeNext]_vars

\* Workload 3: the broadcasts, over a set that other clients filled earlier.
BroadcastNext ==
    \/ Construct
    \/ setClear
    \/ \E i \in Parts : setClearInvoke(i)
    \/ setListen
    \/ \E i \in Parts : setListenInvoke(i)
    \/ setClose
    \/ \E i \in Parts : setCloseInvoke(i)
    \/ setDelete
    \/ \E i \in Parts : setDeleteInvoke(i)
    \/ IterAsyncReturn
    \/ CancelCtx

SpecBroadcast == Init /\ [][BroadcastNext]_vars

\* Workload 4: Listen, then changes of the set (made by any client) and the
\* forwarding of their events.
ListenNext ==
    \/ Construct
    \/ setListen
    \/ \E i \in Parts : setListenInvoke(i)
    \/ IterAsyncReturn
    \/ \E k \in Keys, add \in BOOLEAN : OtherWriter(k, add)
    \/ \E p \in Parts : Forward(p)

SpecListen == Init /\ [][ListenNext]_vars

\* Workload 5: the atomic value: Set and Get of one session, writes of C by
\* another.
OptionSets == [expectVersion : ExpectVersions, expectValue : ExpectValues]

ValueNext ==
    \/ valueNew
    \/ \E v \in Values, opts \in OptionSets : valueSet(v, opts)
    \/ valueGet
    \/ OtherSet("C")

SpecValue == InitValue /\ [][ValueNext]_vars

\* Workload 6: Watch, Sets of this session (plain, or expecting version 1), and
\* the event stream's steps.
WatchOptionSets == [expectVersion : {0, 1}, expectValue : {""}]

WatchNext ==
    \/ valueNew
    \/ valueWatch
    \/ \E v \in Values, opts \in WatchOptionSets : valueSet(v, opts)
    \/ StreamRecv
    \/ StreamError
    \/ InjectGap
    \/ WatchForward
    \/ WatchDone

SpecWatch == InitValue /\ [][WatchNext]_vars

\* Workload 7: the life of the value's session: commands, queries and Watch
\* before and after Close and Delete, with the keep-alive timer.
LifecycleNext ==
    \/ valueNew
    \/ valueSet("A", NoOptions)
    \/ valueGet
    \/ valueWatch
    \/ valueClose
    \/ valueDelete
    \/ SessionKeepAlive

SpecLifecycle == InitValue /\ [][LifecycleNext]_vars

\* Workload 8: goroutines calling Set on the value at the same time.
CommandsNext ==
    \/ valueNew
    \/ \E t \in Threads, v \in Values : cmdLock(t, v)
    \/ \E t \in Threads : cmdReadId(t)
    \/ \E t \in Threads : cmdWriteId(t)
    \/ \E t \in Threads : setCallback(t)
    \/ serverExecute
    \/ \E t \in Threads : setResponse(t)

SpecCommands == InitValue /\ [][CommandsNext]_vars

\* Workload 9: a failing event stream, with commands and queries of the session
\* before and after the failure.
StreamFailureNext ==
    \/ valueNew
    \/ valueWatch
    \/ valueSet("A", NoOptions)
    \/ valueGet
    \/ StreamRecv
    \/ StreamError
    \/ InjectGap
    \/ WatchForward
    \/ WatchDone

SpecStreamFailure == InitValue /\ [][StreamFailureNext]_vars

\* Workload 10: Watch with a consumer that may close the channel it passed.
ConsumerNext ==
    \/ valueNew
    \/ valueWatch
    \/ \E v \in Values : valueSet(v, NoOptions)
    \/ StreamRecv
    \/ StreamError
    \/ WatchForward
    \/ WatchDone
    \/ ConsumerClose

SpecConsumer == InitValue /\ [][ConsumerNext]_vars

\* Workload 11: Watch with a consumer that may stop receiving, the context of
\* Watch cancelled or the session closed. The receive loop of the session and
\* the forwarding goroutine run whenever they can.
WatchLiveNext ==
    \/ valueNew
    \/ valueWatch
    \/ valueSet("A", NoOptions)
    \/ StreamRecv
    \/ WatchForward
    \/ WatchDone
    \/ ConsumerStop
    \/ CancelWatch
    \/ valueClose

SpecWatchLive ==
    /\ InitValue
    /\ [][WatchLiveNext]_vars
    /\ WF_vars(StreamRecv)
    /\ WF_vars(WatchForward)
    /\ WF_vars(WatchDone)

\* Workload 12: the hooks of the counter's session handler, called by a session
\* that opens, runs and ends.
HandlerNext ==
    \/ handlerCreate
    \/ handlerKeepAlive
    \/ handlerClose
    \/ handlerDelete
    \/ \E index \in 1 .. MaxIndex : sessionUpdateHeader(index)

SpecHandler == InitValue /\ [][HandlerNext]_vars

\* ================================================================ claims
KeyRoutedOps == {"Add", "Remove", "Contains"}

\* C1: over N >= 1 partitions every Add(v), Remove(v), Contains(v) is delegated
\* to exactly one per-partition Set, the one at index GetPartitionIndex(v, N),
\* whatever the operation, so the three always reach the same partition for v.
C1_KeyRoutedToHashedPartition ==
    (last.op \in KeyRoutedOps /\ Len(setPartitions) >= 1) =>
        LET i == GetPartitionIndex(last.key, Len(setPartitions)).i IN
        /\ last.idx = i
        /\ last.targets = {setPartitions[i + 1]}
        /\ Cardinality(last.targets) = 1

C1_Witness ==
    /\ conns = 3
    /\ last.op = "Contains"
    /\ last.err = NoErr
    /\ last.key = <<121>>
    /\ last.targets = {2}

\* The per-index results of the current fan-out, summed over the partitions.
RECURSIVE SumResults(_)
SumResults(S) ==
    IF S = {} THEN 0
    ELSE LET i == CHOOSE j \in S : TRUE IN fanSt[i].val + SumResults(S \ {i})

\* C2: Size() returns nil error only when every partition's Size succeeded, and
\* then exactly the sum of the N per-partition sizes, each counted once whatever
\* the completion order; when a per-partition Size failed it returns 0 and an error.
C2_SizeIsSumOfPartitions ==
    (fanOp = "Size" /\ fanRet.done) =>
        /\ DOMAIN fanSt = 0 .. (Len(setPartitions) - 1)
        /\ fanRet.err = NoErr =>
              /\ \A i \in DOMAIN fanSt : fanSt[i].st = "ok"
              /\ fanRet.val = SumResults(DOMAIN fanSt)
        /\ (\E i \in DOMAIN fanSt : fanSt[i].st = "err") =>
              /\ fanRet.err # NoErr
              /\ fanRet.val = 0

\* Two partitions holding 1 and 2 elements, the second answering first.
C2_Witness ==
    /\ conns = 2
    /\ fanOp = "Size"
    /\ fanRet.done
    /\ fanRet.err = NoErr
    /\ resultCh = <<2, 1>>
    /\ fanRet.val = 3

\* C3: a Contains(v) that follows a successful Add(v) of the same client with no
\* write to v in between, and that returns without error, returns true.
C3_AddThenContains ==
    (last.op = "Contains" /\ last.err = NoErr /\ last.wasFresh) => last.ok

C3_Witness ==
    /\ conns = 3
    /\ last.op = "Contains"
    /\ last.err = NoErr
    /\ last.wasFresh
    /\ last.ok
    /\ last.idx = 2

\* C4: Set returns the response's version and nil exactly when the state machine
\* reports success; a refused Set returns version 0 and an error, the version
\* mismatch whenever a version > 0 was expected, and leaves value and version as
\* they were: Set(A) -> 1, Set(B, expect 1) -> 2, Set(C, expect 1) -> mismatch,
\* Get -> (B, 2).
C4_SetReturnsVersionOrMismatch ==
    /\ vlast.op = "Set" =>
        /\ vlast.retErr = NoErr <=> (vlast.rpcErr = NoErr /\ vlast.succeeded)
        /\ vlast.retErr = NoErr => vlast.retVersion = vlast.respVersion
        /\ (vlast.rpcErr = NoErr /\ ~vlast.succeeded) =>
              /\ vlast.retVersion = 0
              /\ vlast.retErr # NoErr
              /\ vlast.expectVersion > 0 => vlast.retErr = VersionMismatch
              /\ vlast.post = vlast.pre
        /\ ( /\ vlast.rpcErr = NoErr /\ vlast.value = "A" /\ vlast.expectVersion = 0
             /\ vlast.expectValue = "" /\ vlast.pre.ver = 0 ) =>
              (vlast.retErr = NoErr /\ vlast.retVersion = 1)
        /\ ( /\ vlast.rpcErr = NoErr /\ vlast.value = "B" /\ vlast.expectVersion = 1
             /\ vlast.expectValue = "" /\ vlast.pre.ver = 1 ) =>
              (vlast.retErr = NoErr /\ vlast.retVersion = 2)
        /\ ( /\ vlast.rpcErr = NoErr /\ vlast.value = "C" /\ vlast.expectVersion = 1
             /\ vlast.pre = [val |-> "B", ver |-> 2] ) =>
              /\ vlast.retErr = VersionMismatch
              /\ vlast.retVersion = 0
              /\ vlast.post = [val |-> "B", ver |-> 2]
    /\ ( /\ vlast.op = "Get" /\ vlast.retErr = NoErr /\ vlast.floor = vlast.cur
         /\ vlast.pre = [val |-> "B", ver |-> 2] ) =>
          (vlast.retVal = "B" /\ vlast.retVersion = 2)

\* Set(A) -> 1 and Set(B, expect 1) -> 2 went through, Set(C, expect 1) was refused.
C4_Witness ==
    /\ vlog = << [val |-> "", ver |-> 0], [val |-> "A", ver |-> 1],
                 [val |-> "B", ver |-> 2], [val |-> "B", ver |-> 2] >>
    /\ vlast.op = "Set"
    /\ vlast.value = "C"
    /\ vlast.expectVersion = 1
    /\ vlast.retVersion = 0
    /\ vlast.retErr = VersionMismatch

\* C5: a Get that follows a successful Set(v) of the same session, no other
\* writer in between, returns (v, the version that Set returned); and a Get never
\* reads a state older than the result of the session's last successful Set.
C5_SetThenGet ==
    (vlast.op = "Get" /\ vlast.retErr = NoErr) =>
        /\ own.valid => (vlast.retVal = own.val /\ vlast.retVersion = own.ver)
        /\ vlast.index >= own.index

\* Another session wrote first; then this session's Set(B) and its Get.
C5_Witness ==
    /\ vlast.op = "Get"
    /\ vlast.retErr = NoErr
    /\ own.valid
    /\ own.index = 2
    /\ vlast.retVal = "B"
    /\ vlast.retVersion = 2

\* The event Watch owes the caller for a response of the stream.
ExpectedEvent(response) ==
    [type |-> "updated", value |-> response.newValue, version |-> response.newVersion]

\* C6: Watch sends on the caller's channel exactly one EventUpdated per response
\* the session's stream produced, in the stream's order; with the stream intact
\* and drained, the channel carries the values set since Watch, in order.
C6_WatchDeliversInOrder ==
    /\ Len(vch) + Len(wstream) = Len(produced)
    /\ \A i \in 1 .. Len(vch) : vch[i] = ExpectedEvent(produced[i])
    /\ wpc = "done" => Len(vch) = Len(produced)
    /\ (wstate = "open" /\ ~wlost /\ wnet = <<>> /\ wstream = <<>>) =>
           /\ Len(vch) = Len(wemitted)
           /\ \A i \in 1 .. Len(vch) : vch[i].value = wemitted[i].newValue

\* Watch, then Set(A), Set(B), Set(C): three events A, B, C.
C6_Witness ==
    /\ wstate = "open"
    /\ Len(vch) = 3
    /\ vch[1] = [type |-> "updated", value |-> "A", version |-> 1]
    /\ vch[2] = [type |-> "updated", value |-> "B", version |-> 2]
    /\ vch[3] = [type |-> "updated", value |-> "C", version |-> 3]

\* The events of partition p within a sequence of events, in the sequence's order.
FromPartition(events, p) == SelectSeq(events, LAMBDA e : e.p = p)

\* C7: a Listen that returned nil has subscribed every partition to the caller's
\* channel; the events of one partition appear on the channel in the order the
\* partition emitted them, none dropped and none duplicated.
C7_ListenMultiplexes ==
    /\ (fanOp = "Listen" /\ fanRet.done /\ fanRet.err = NoErr) =>
           \A i \in 1 .. Len(setPartitions) : listening[setPartitions[i]]
    /\ \A p \in Parts : FromPartition(ch, p) \o pstream[p] = emitted[p]

\* Two partitions' events reach the channel against their order of emission.
C7_Witness ==
    /\ Len(ch) = 2
    /\ ch[1].p # ch[2].p
    /\ ch[1].g = 2
    /\ ch[2].g = 1

\* C8: a broadcast runs the per-partition operation on every partition; it
\* returns nil exactly when all of them returned nil, and otherwise one of the
\* per-partition errors; partitions that completed keep the operation's effect.
C8_BroadcastFirstError ==
    (fanOp \in BroadcastOps /\ fanRet.done) =>
        /\ DOMAIN fanSt = 0 .. (Len(setPartitions) - 1)
        /\ fanRet.err = NoErr <=> \A i \in DOMAIN fanSt : fanSt[i].st = "ok"
        /\ fanRet.err # NoErr =>
              \E i \in DOMAIN fanSt : fanSt[i].st = "err" /\ fanSt[i].err = fanRet.err

\* A 3-partition Clear where partition 2 fails: the call returns that error,
\* partition 1 is cleared and partition 2 keeps its element.
C8_Witness ==
    /\ conns = 3
    /\ fanOp = "Clear"
    /\ fanRet.done
    /\ fanRet.err = Err("Transport", 2)
    /\ fanSt[1].st = "ok"
    /\ elems[1] = {}
    /\ elems[2] = { <<121>> }

\* C9: once a fan-out has failed on its first error, no invocation on another
\* partition is still in flight uncancelled.
C9_SurvivorsCancelled ==
    (fanRet.done /\ fanRet.err # NoErr) =>
        \A i \in DOMAIN fanSt :
            fanSt[i].st = "running" => (fanOp \in CtxOps /\ ctxDone)

\* C10: with no partitions value.New returns NoPartitions and opens no session,
\* and Add/Remove/Contains return NoPartitions with a false result and delegate
\* to no partition; with N >= 1 the chosen index lies within [0, N).
C10_NoPartitions ==
    /\ (conns = 0 /\ vnew.called) =>
           (vnew.err.kind = "NoPartitions" /\ vnew.part = -1 /\ vsess = "none")
    /\ (conns = 0 /\ last.op \in KeyRoutedOps) =>
           (last.err.kind = "NoPartitions" /\ ~last.ok /\ last.targets = {})
    /\ (conns >= 1 /\ last.op \in KeyRoutedOps) => last.idx \in 0 .. (conns - 1)
    /\ (conns >= 1 /\ vnew.called) => vnew.part \in 0 .. (conns - 1)

C10_Witness ==
    /\ conns = 0
    /\ vnew.called
    /\ last.op = "Add"
    /\ last.err.kind = "NoPartitions"

\* C11: every Close of the value returns what its first Close returned and
\* leaves the session Closed; a Delete that follows a Close fails with
\* SessionClosed, and the server keeps the value's state.
C11_CloseIdempotent ==
    /\ CloseCalled => vsess = "closed"
    /\ \A i \in 1 .. Len(closeCalls) : closeCalls[i] = closeCalls[1]
    /\ (vdelete.called /\ vdelete.afterClose) =>
           (vdelete.err = SessionClosed /\ vdestroyed = vdelete.destroyedBefore)

\* Set(A), three Closes, then a Delete that is refused: the value is still there.
C11_Witness ==
    /\ Len(closeCalls) = 3
    /\ vdelete.called
    /\ vdelete.afterClose
    /\ vdelete.err = SessionClosed
    /\ ~vdestroyed
    /\ Current = [val |-> "A", ver |-> 1]

\* C12: once Close has been called no RPC goes out on the session (no command,
\* query, stream open, keep-alive or second close request), and every Set, Get
\* and Watch issued afterwards fails with SessionClosed without reaching the
\* server; the session does not leave Closed.
C12_ClosedIsTerminal ==
    /\ ~lastRpc.afterClose
    /\ CloseCalled => (vsess = "closed" /\ wstate # "open")
    /\ (vlast.op # "none" /\ vlast.afterClose) =>
           (vlast.retErr = SessionClosed /\ vlast.post = vlast.pre)
    /\ (wret.called /\ wret.afterClose) => wret.err = SessionClosed

\* After two Closes a Watch and a Set were refused; the last RPC sent is the
\* close request of the first Close.
C12_Witness ==
    /\ Len(closeCalls) = 2
    /\ lastRpc.kind = "Close"
    /\ vlast.op = "Set"
    /\ vlast.afterClose
    /\ wret.called
    /\ wret.afterClose

\* C13: under every interleaving of Sets on one session no two requests carry
\* the same request id, the ids are handed out in strictly increasing order,
\* every request carries an id that was handed out, and last_request_id never
\* decreases.
C13_RequestIdsSerialized ==
    /\ [](/\ \A i, j \in 1 .. Len(carried) : i # j => carried[i] # carried[j]
          /\ \A i \in 1 .. Len(carried) : \E j \in 1 .. Len(allocated) : carried[i] = allocated[j]
          /\ \A i \in 1 .. (Len(allocated) - 1) : allocated[i] < allocated[i + 1]
          /\ \A t, u \in Threads :
                (t # u /\ cmds[t].pc \in {"allocated", "sent"}
                       /\ cmds[u].pc \in {"allocated", "sent"}) => cmds[t].id # cmds[u].id)
    /\ [][lastRequestId' >= lastRequestId]_vars

\* Two Sets in flight at once, transmitted against the order of their ids.
C13_Witness ==
    /\ cmds[1].pc = "sent"
    /\ cmds[2].pc = "sent"
    /\ carried = <<2, 1>>
    /\ allocated = <<1, 2>>
    /\ lastRequestId = 2

\* C14: a receive error or a response_id gap ends only the stream: nothing
\* more is produced on it and, once drained, the caller's channel is closed,
\* while the session stays Open and the Sets and Gets issued afterwards are not
\* refused and succeed when their RPC goes through.
C14_StreamFailureKeepsSession ==
    /\ [](/\ wstate = "closed" => vsess = "open"
          /\ (vlast.op # "none" /\ vlast.afterStreamEnd) =>
                /\ vlast.rpcErr # SessionClosed
                /\ vlast.rpcErr = NoErr => vlast.retErr = NoErr
          /\ wpc = "done" =>
                (vchClosed /\ wstate = "closed" /\ Len(vch) = Len(produced)))
    /\ [][wstate = "closed" => (wstate' = "closed" /\ produced' = produced)]_vars

\* A response was lost, the gap closed the stream and the channel; the Set that
\* followed went through.
C14_Witness ==
    /\ wlost
    /\ wstate = "closed"
    /\ wpc = "done"
    /\ vchClosed
    /\ vsess = "open"
    /\ vlast.op = "Set"
    /\ vlast.afterStreamEnd
    /\ vlast.retErr = NoErr
    /\ vlast.retVersion = 3

\* C15: once New has returned an error and its invocations have ended, no
\* session that the call opened is still open.
C15_FailedNewReleasesSessions ==
    (phase = "failed" /\ AllDone) => \A p \in Parts : sess[p] # "open"

\* C16: when the consumer closed the channel it passed to Watch and the stream
\* ends without any event, no event is delivered and the forwarding goroutine
\* ends without a panic.
C16_EmptyStreamCleanTeardown ==
    (consumer = "closed" /\ wemitted = <<>> /\ wstate = "closed") =>
        (vch = <<>> /\ wpc \notin Panics)

\* C17: Watch's goroutine closes the caller's channel at most once, only when
\* the stream has ended and every response it produced has been forwarded, and
\* sends nothing afterwards; a Watch that returns an error has started no
\* goroutine and has neither written nor closed the channel.
C17_ChannelClosedOnce ==
    /\ [](/\ libCloses <= 1
          /\ libCloses = 1 =>
                (wpc = "done" /\ wstate = "closed" /\ wstream = <<>>
                    /\ Len(vch) = Len(produced))
          /\ (wret.called /\ wret.err # NoErr) =>
                (wpc = "none" /\ vch = <<>> /\ ~vchClosed /\ libCloses = 0))
    /\ [][libCloses = 1 => (vch' = vch /\ libCloses' = 1)]_vars

\* Two events were forwarded, the stream failed, the channel was closed once.
C17_Witness ==
    /\ libCloses = 1
    /\ vchClosed
    /\ Len(vch) = 2
    /\ Len(produced) = 2
    /\ Len(wemitted) = 3

\* C18: once the context of Watch is cancelled or the session is closed while
\* the forwarding goroutine runs, the goroutine ends and closes the caller's
\* channel.
C18_ForwarderTerminates ==
    (wpc = "ranging" /\ (wctxDone \/ CloseCalled)) ~> (wpc = "done" /\ vchClosed)

\* The last RPC the handler's client sent.
LastRpcSent == hRpcs[Len(hRpcs)]

\* The header a session holds after taking a response header.
ExpectedHeader(before, response) ==
    [sessionId |-> response.sessionId,
     index |-> IF response.index > before.index THEN response.index ELSE before.index]

\* C19: Create sends exactly one Create RPC, carrying the header the session
\* held; when it succeeds the header is updated once, from the response header,
\* and Create returns nil; when it fails Create returns the RPC's error and the
\* header is as before.
C19_CreateUpdatesHeaderOnce ==
    hRet.hook = "Create" =>
        /\ Len(hRpcs) = hRet.sentBefore + 1
        /\ LastRpcSent = [rpc |-> "Create", header |-> hRet.before, delete |-> FALSE]
        /\ hRet.err = hRet.rpcErr
        /\ hRet.err = NoErr =>
              (hRet.updates = 1 /\ hRet.after = ExpectedHeader(hRet.before, hRet.response))
        /\ hRet.err # NoErr => (hRet.updates = 0 /\ hRet.after = hRet.before)

\* A Create that failed, then one that succeeded with session id 2 at index 1.
C19_Witness ==
    /\ hRet.hook = "Create"
    /\ hRet.err = NoErr
    /\ Len(hRpcs) = 2
    /\ hUpdates = 1
    /\ hHeader = [sessionId |-> 2, index |-> 1]

\* C20: Close and Delete each send exactly one Close RPC, carrying the header
\* the session holds, with the delete flag set exactly for Delete; they return
\* the RPC's error and leave the header alone; KeepAlive sends nothing, changes
\* nothing and returns nil.
C20_CloseDeleteKeepAlive ==
    /\ hRet.hook \in {"Close", "Delete"} =>
          /\ Len(hRpcs) = hRet.sentBefore + 1
          /\ LastRpcSent = [rpc |-> "Close", header |-> hRet.before,
                            delete |-> (hRet.hook = "Delete")]
          /\ hRet.err = hRet.rpcErr
          /\ hRet.updates = 0
          /\ hRet.after = hRet.before
          /\ hHeader = hRet.before
    /\ hRet.hook = "KeepAlive" =>
          /\ Len(hRpcs) = hRet.sentBefore
          /\ hRet.err = NoErr
          /\ hRet.updates = 0
          /\ hRet.after = hRet.before

\* A session created at index 1 that moved on to index 3; its Delete failed.
C20_Witness ==
    /\ hRet.hook = "Delete"
    /\ hRet.err = Err("Transport", -1)
    /\ Len(hRpcs) = 2
    /\ LastRpcSent.header = [sessionId |-> 1, index |-> 3]
    /\ LastRpcSent.delete

====
